---- MODULE Spec2Model ----
(***************************************************************************)
(* The tag index of coq_nvim: CTDB (coq/databases/tags/database.py), one   *)
(* sqlite database per working directory, every access funnelled through a *)
(* SingleThreadExecutor.                                                   *)
(*                                                                         *)
(* Two threads exist: the event loop, on which the coroutines paths,       *)
(* select, reconciliate and swap run, and the executor's worker, on which  *)
(* the closures `cont` run.  A closure is modelled statement by statement, *)
(* so that whatever could interleave with it is visible.                   *)
(*                                                                         *)
(* The tree-sitter Worker (coq/clients/tree_sitter/worker.py), with its    *)
(* token-correlated requests, is a second system, under TSSpec.            *)
(***************************************************************************)
EXTENDS Integers, Sequences, FiniteSets, TLC

\* ------------------------------------------------------------------ bounds
\* Calls of the public operations made in one behaviour.
MaxCalls == 3

\* ------------------------------------------------------------- input sets
Cwds == {"p", "q"}
Files == {"A", "B"}
InitCwd == "p"

\* Raw tags as the extractor hands them over: partial mappings, every tag
\* listed under the filename it belongs to.
RawTag(f, n) == [path |-> f, name |-> n]
RawTagK(f, n) == [path |-> f, name |-> n, line |-> 3, kind |-> "function"]
T1(f) == <<RawTag(f, "x")>>
T2(f) == <<RawTagK(f, "y"), RawTag(f, "z")>>
Entry(f, m, tags) == [filename |-> f, lang |-> "py", mtime |-> m, tags |-> tags]

\* The (dead, new) pairs reconciliate is called with.  `new` is a dict: a
\* sequence of entries with distinct keys, in insertion order.
ReconInputs ==
  { [dead |-> {}, new |-> <<Entry("A", 1, T1("A")), Entry("B", 1, T1("B"))>>],
    [dead |-> {}, new |-> <<Entry("A", 2, T2("A"))>>],
    [dead |-> {"A"}, new |-> <<>>] }

\* ------------------------------------------------------------ tag records
_SCHEMA == "v5"

_NIL_TAG ==
  [language |-> "", path |-> "", line |-> 0, kind |-> "", name |-> "",
   pattern |-> "None", typeref |-> "None", scope |-> "None",
   scopeKind |-> "None", access |-> "None"]

\* {**a, **b}: the keys of both, b's value where both have the key.
DictMerge(a, b) ==
  [k \in (DOMAIN a) \cup (DOMAIN b) |-> IF k \in DOMAIN b THEN b[k] ELSE a[k]]

\* ------------------------------------------------------------------- bags
\* A table without a key (tags) is a bag of rows: row |-> number of copies.
NoRows == [r \in {} |-> 0]

BagAdd(b, r) ==
  [x \in (DOMAIN b) \cup {r} |->
     (IF x \in DOMAIN b THEN b[x] ELSE 0) + (IF x = r THEN 1 ELSE 0)]

RECURSIVE BagAddSeq(_, _)
BagAddSeq(b, s) ==
  IF s = <<>> THEN b ELSE BagAddSeq(BagAdd(b, Head(s)), Tail(s))

BagOfSeq(s) == BagAddSeq(NoRows, s)

BagKeep(b, keep(_)) == [x \in {y \in DOMAIN b : keep(y)} |-> b[x]]

RECURSIVE SeqConcat(_)
SeqConcat(ss) == IF ss = <<>> THEN <<>> ELSE Head(ss) \o SeqConcat(Tail(ss))

SeqRange(s) == {s[i] : i \in 1..Len(s)}

\* ---------------------------------------------------------- storage engine
\* One database: the files table (primary key filename) and the tags table.
EmptyDb == [files |-> [f \in {} |-> 0], tags |-> NoRows]

\* The database file a working directory maps to: <hash(normcase(cwd))>-v5.
\* The hash is kept as the (injective) pair.
DbName(cwd) == <<cwd, _SCHEMA>>

\* sql("delete", "file"): the file's row, and by the cascade its tags.
SqlDeleteFile(d, p) ==
  [files |-> [f \in (DOMAIN d.files) \ {p.filename} |-> d.files[f]],
   tags |-> BagKeep(d.tags, LAMBDA r : r.path # p.filename)]

\* sql("insert", "file"); the caller has checked the key is free.
SqlInsertFile(d, p) ==
  [d EXCEPT !.files =
     [f \in (DOMAIN d.files) \cup {p.filename} |->
        IF f = p.filename THEN [filetype |-> p.filetype, mtime |-> p.mtime]
        ELSE d.files[f]]]

\* sql("insert", "tag")
SqlInsertTag(d, p) == [d EXCEPT !.tags = BagAdd(d.tags, p)]

\* sql("select", "files") as paths reads it: filename |-> mtime
SqlSelectFiles(d) == [f \in DOMAIN d.files |-> d.files[f].mtime]

RECURSIVE DeleteAll(_, _)
DeleteAll(d, S) ==
  IF S = {} THEN d
  ELSE LET f == CHOOSE x \in S : TRUE
       IN DeleteAll(SqlDeleteFile(d, [filename |-> f]), S \ {f})

RECURSIVE InsertFiles(_, _)
InsertFiles(d, rows) ==
  IF rows = <<>> THEN d ELSE InsertFiles(SqlInsertFile(d, Head(rows)), Tail(rows))

RECURSIVE InsertTags(_, _)
InsertTags(d, rows) ==
  IF rows = <<>> THEN d ELSE InsertTags(SqlInsertTag(d, Head(rows)), Tail(rows))

\* The longest prefix of rows whose keys are free and distinct: what
\* executemany inserts before the primary key stops it.
RECURSIVE FreePrefix(_, _)
FreePrefix(d, rows) ==
  IF rows = <<>> \/ Head(rows).filename \in DOMAIN d.files THEN 0
  ELSE 1 + FreePrefix(SqlInsertFile(d, Head(rows)), Tail(rows))

TagsOf(d, f) == BagKeep(d.tags, LAMBDA r : r.path = f)

\* ------------------------------------------------- reconciliate's closures
Keys(new) == {new[i].filename : i \in 1..Len(new)}

\* The purge of every file, whatever was asked.
DeleteParams_All(dead, new) == Files

\* The purge without the keys of new.
DeleteParams_DeadOnly(dead, new) == dead

\* line 93: the filenames purged
DeleteParams(dead, new) == dead \cup Keys(new)

\* No files row for any entry of new.
M1_Empty(new) == <<>>

\* m1: one files row per entry of new
M1(new) ==
  [i \in 1..Len(new) |->
     [filename |-> new[i].filename, filetype |-> new[i].lang,
      mtime |-> new[i].mtime]]

\* The merge the other way round: the nil tag's values win.
M2Row_NilWins(tag) == DictMerge(tag, _NIL_TAG)

\* m2: every tag of every entry, over the nil tag
M2Row(tag) == DictMerge(_NIL_TAG, tag)

M2(new) ==
  SeqConcat([i \in 1..Len(new) |->
               [j \in 1..Len(new[i].tags) |-> M2Row(new[i].tags[j])]])

\* ------------------------------------------------------------------ state
VARIABLES
  conn,      \* self._conn: [cwd, open]
  db,        \* the database files on disk, by name
  queue,     \* the executor's queue of submitted closures (call ids)
  running,   \* per thread, the closure it is executing: [call, pc, before]
  calls,     \* the calls of the public operations, by id
  ncalls,    \* how many calls were made
  lock,      \* self._lock: the call holding it, or 0
  scope,     \* the select inside the interruption scope, or 0
  hist,      \* the closure that ended last, and what it saw and left
  abandoned, \* per database, files of a reconciliation abandoned midway
  swapped    \* the working directory of the last swap that went through

\* The tree-sitter Worker (coq/clients/tree_sitter/worker.py), a client of
\* its own: it shares nothing with CTDB.
VARIABLES
  _cur,      \* self._cur: the current token (its future is futs[_cur])
  futs,      \* the futures created so far, by the token they are paired with
  reqs,      \* the calls of _req, by id: [pc, token, ret]
  sent,      \* the tokens handed to the external process by COQts_req
  note       \* the last call of notify: what it was given, found and left

tsvars == <<_cur, futs, reqs, sent, note>>

vars ==
  <<conn, db, queue, running, calls, ncalls, lock, scope, hist, abandoned,
    swapped, tsvars>>

Threads == {"worker", "loop"}
CallIds == 1..MaxCalls
Idle == [call |-> 0]

NoCall == [op |-> "none"]
Pending == [st |-> "pending"]
NotReturned == [kind |-> "none"]
NoHist == [call |-> 0]

Cur == db[DbName(conn.cwd)]

Busy(t) == running[t].call # 0
Executing == {t \in Threads : Busy(t)}

\* A reconciliation between its first and its last statement.
Midway(t) ==
  /\ Busy(t)
  /\ calls[running[t].call].op = "reconciliate"
  /\ running[t].pc \in {"insert_files", "insert_tags", "optimize"}

\* ------------------------------------------------- tree-sitter Worker: state
\* Calls of _req made in one behaviour.
MaxReqs == 3

ReqIds == 1..MaxReqs

\* uuid4(): a token no one else has.  The pair of __init__ has token 0, the
\* pair of the r-th call of _req has token r.
Tokens == 0..MaxReqs

\* What the external process answers with.
Replies == {"r1", "r2"}

NoFuture == [st |-> "none"]
NoReq == [pc |-> "none"]
NoNote == [token |-> -1]

\* lines 24-25: self._cur = uuid4(), Future()
TSInit ==
  /\ _cur = 0
  /\ futs = [t \in Tokens |-> IF t = 0 THEN Pending ELSE NoFuture]
  /\ reqs = [r \in ReqIds |-> NoReq]
  /\ sent = {}
  /\ note = NoNote

Init ==
  /\ conn = [cwd |-> InitCwd, open |-> TRUE]
  /\ db = [n \in {DbName(c) : c \in Cwds} |-> EmptyDb]
  /\ queue = <<>>
  /\ running = [t \in Threads |-> Idle]
  /\ calls = [c \in CallIds |-> NoCall]
  /\ ncalls = 0
  /\ lock = 0
  /\ scope = 0
  /\ hist = NoHist
  /\ abandoned = [n \in {DbName(c) : c \in Cwds} |-> {}]
  /\ swapped = "none"
  /\ TSInit

\* --------------------------------------------------- SingleThreadExecutor
\* submit: the closure goes to the end of the queue.
ExSubmit(c) == /\ queue' = Append(queue, c)
               /\ UNCHANGED running

\* The closure run where it stands, on the calling thread.
RunInline(c, pc0) ==
  /\ ~Busy("loop")
  /\ running' = [running EXCEPT !["loop"] =
                   [call |-> c, pc |-> pc0, before |-> Cur, name |-> DbName(conn.cwd)]]
  /\ UNCHANGED queue

FirstPc(op) ==
  CASE op = "reconciliate" -> "delete"
    [] op = "swap" -> "close"
    [] OTHER -> "exec"

\* The worker dropping, unrun, a closure whose future was cancelled.
WorkerTake_SkipCancelled ==
  /\ ~Busy("worker")
  /\ queue # <<>>
  /\ running' = [running EXCEPT !["worker"] =
                   IF calls[Head(queue)].fut.st = "cancelled" THEN Idle
                   ELSE [call |-> Head(queue), pc |-> FirstPc(calls[Head(queue)].op),
                         before |-> Cur, name |-> DbName(conn.cwd)]]
  /\ queue' = Tail(queue)
  /\ UNCHANGED <<conn, db, calls, ncalls, lock, scope, hist, abandoned, swapped, tsvars>>

\* The worker takes the head of the queue.
WorkerTake ==
  /\ ~Busy("worker")
  /\ queue # <<>>
  /\ running' = [running EXCEPT !["worker"] =
                   [call |-> Head(queue), pc |-> FirstPc(calls[Head(queue)].op),
                    before |-> Cur, name |-> DbName(conn.cwd)]]
  /\ queue' = Tail(queue)
  /\ UNCHANGED <<conn, db, calls, ncalls, lock, scope, hist, abandoned, swapped, tsvars>>

\* What the coroutine hands back once its future is done.
Value(v) == [kind |-> "value", val |-> v]
Raise(e) == [kind |-> "raised", err |-> e]

\* lines 68-71
PathsResult(fut) ==
  IF fut.st = "result" THEN Value(fut.val)
  ELSE IF fut.err = "OperationalError" THEN Value(<<>>)
  ELSE Raise(fut.err)

\* line 99
ReconciliateResult(fut) ==
  IF fut.st = "result" THEN Value(fut.val) ELSE Raise(fut.err)

\* lines 129-133
SelectResult(fut) ==
  IF fut.st = "cancelled" THEN [kind |-> "cancelled"]
  ELSE IF fut.st = "result" THEN Value(fut.val)
  ELSE IF fut.err = "OperationalError" THEN Value(<<>>)
  ELSE Raise(fut.err)

\* lines 58-59
SwapResult(fut) ==
  IF fut.st = "result" THEN Value(fut.val) ELSE Raise(fut.err)

Result(op, fut) ==
  CASE op = "paths" -> PathsResult(fut)
    [] op = "reconciliate" -> ReconciliateResult(fut)
    [] op = "select" -> SelectResult(fut)
    [] op = "swap" -> SwapResult(fut)

\* paths and reconciliate hold nothing while they wait: what is left of them
\* once the future is done touches no shared state, and is taken with the
\* step that resolves the future.  select (inside its scope) and swap
\* (holding the lock) resume in a step of their own, Return.
Holds(op) == op \in {"select", "swap"}

\* The closure's outcome reaches the future of the call that submitted it; a
\* future that was cancelled meanwhile keeps its state.
Resolve(c, out) ==
  LET fut == IF calls[c].fut.st = "pending" THEN out ELSE calls[c].fut
  IN IF Holds(calls[c].op)
     THEN [calls EXCEPT ![c].fut = fut, ![c].ran = TRUE]
     ELSE [calls EXCEPT ![c].fut = fut, ![c].ran = TRUE, ![c].pc = "done",
                        ![c].ret = Result(calls[c].op, fut)]

Returned(v) == [st |-> "result", val |-> v]
Raised(e) == [st |-> "exception", err |-> e]

\* The closure of call c, on database n, comes right after the closure of a
\* reconciliation with the same arguments that was abandoned on that database.
Retry(c, n) ==
  /\ hist.call # 0
  /\ hist.op = "reconciliate"
  /\ calls[c].op = "reconciliate"
  /\ hist.arg = calls[c].arg
  /\ hist.name = n
  /\ hist.how = "abandoned"

\* The closure on thread t ends with `out`, leaving database d in place of
\* the one it ran against.  `how` says whether it ran all its statements
\* ("completed"), was cut short inside suppress ("abandoned") or raised.
\* hist keeps, for a retry, the database the abandoned attempt started from.
Finish(t, out, d, how) ==
  LET c == running[t].call
      n == running[t].name
  IN /\ running' = [running EXCEPT ![t] = Idle]
     /\ calls' = Resolve(c, out)
     /\ db' = [db EXCEPT ![n] = d]
     /\ hist' = [call |-> c, op |-> calls[c].op, arg |-> calls[c].arg,
                 name |-> n, before |-> running[t].before, seen |-> db[n],
                 after |-> d, out |-> out, how |-> how,
                 midway |-> {u \in Threads \ {t} : Midway(u)},
                 abandoned |-> abandoned[n],
                 again |-> /\ hist.call # 0
                           /\ hist.op = calls[c].op
                           /\ hist.arg = calls[c].arg
                           /\ hist.name = n
                           /\ hist.how = "completed",
                 first |-> IF Retry(c, n) THEN <<hist.before>> ELSE <<>>]

\* The closure moves to its next statement.
Goto(t, pc, d) ==
  /\ running' = [running EXCEPT ![t].pc = pc]
  /\ db' = [db EXCEPT ![running[t].name] = d]
  /\ UNCHANGED <<calls, hist>>

UnitFrame == UNCHANGED <<conn, queue, ncalls, lock, scope, swapped, tsvars>>

At(t, op, pc) ==
  /\ Busy(t)
  /\ calls[running[t].call].op = op
  /\ running[t].pc = pc

\* The database the closure on thread t works on, as it is now.
Its(t) == db[running[t].name]

\* ------------------------------------------------------------ paths.cont
\* Any statement sent to sqlite may raise OperationalError (a locked file,
\* an I/O error); on a closed connection cursor() raises ProgrammingError.
PathsRows(d) == SqlSelectFiles(d)

\* The closure retrying for ever instead of letting the error out.
PathsRaise_Hang(t, e) ==
  /\ running' = [running EXCEPT ![t].pc = "retry"]
  /\ UNCHANGED <<calls, db, hist>>

\* An exception in the closure leaves it: nothing in lines 62-66 catches.
PathsRaise(t, e) == Finish(t, Raised(e), Its(t), "raised")

PathsCont(t) ==
  /\ At(t, "paths", "exec")
  /\ UnitFrame
  /\ UNCHANGED abandoned
  /\ IF ~conn.open
     THEN PathsRaise(t, "ProgrammingError")
     ELSE \/ Finish(t, Returned(PathsRows(Its(t))), Its(t), "completed")
          \/ PathsRaise(t, "OperationalError")

\* ----------------------------------------------------- reconciliate.cont
Touched(a) == a.dead \cup Keys(a.new)

\* An OperationalError inside suppress(...): the closure returns None, the
\* statements already run stay (the connection is in autocommit mode).
Abandon(t, d) ==
  /\ abandoned' = [abandoned EXCEPT ![running[t].name] =
                     @ \cup Touched(calls[running[t].call].arg)]
  /\ Finish(t, Returned("None"), d, "abandoned")

ReconDelete(t) ==
  /\ At(t, "reconciliate", "delete")
  /\ UnitFrame
  /\ LET a == calls[running[t].call].arg
         P == DeleteParams(a.dead, a.new)
     IN IF ~conn.open
        THEN /\ Finish(t, Raised("ProgrammingError"), Its(t), "raised")
             /\ UNCHANGED abandoned
        ELSE \/ /\ Goto(t, "insert_files", DeleteAll(Its(t), P))
                /\ UNCHANGED abandoned
             \/ \E S \in (SUBSET P) \ {P} : Abandon(t, DeleteAll(Its(t), S))

ReconInsertFiles(t) ==
  /\ At(t, "reconciliate", "insert_files")
  /\ UnitFrame
  /\ LET rows == M1(calls[running[t].call].arg.new)
         k == FreePrefix(Its(t), rows)
     IN IF k < Len(rows)
        THEN /\ Finish(t, Raised("IntegrityError"),
                       InsertFiles(Its(t), SubSeq(rows, 1, k)), "raised")
             /\ UNCHANGED abandoned
        ELSE \/ /\ Goto(t, "insert_tags", InsertFiles(Its(t), rows))
                /\ UNCHANGED abandoned
             \/ \E j \in 0..(Len(rows) - 1) :
                  Abandon(t, InsertFiles(Its(t), SubSeq(rows, 1, j)))

ReconInsertTags(t) ==
  /\ At(t, "reconciliate", "insert_tags")
  /\ UnitFrame
  /\ LET rows == M2(calls[running[t].call].arg.new)
     IN \/ /\ Goto(t, "optimize", InsertTags(Its(t), rows))
           /\ UNCHANGED abandoned
        \/ \E j \in 0..(Len(rows) - 1) :
             Abandon(t, InsertTags(Its(t), SubSeq(rows, 1, j)))

\* PRAGMA optimize: if it raises, suppress ends the closure as its success
\* does, every row being in place.
ReconOptimize(t) ==
  /\ At(t, "reconciliate", "optimize")
  /\ UnitFrame
  /\ abandoned' = [abandoned EXCEPT ![running[t].name] =
                     @ \ Touched(calls[running[t].call].arg)]
  /\ Finish(t, Returned("None"), Its(t), "completed")

\* ----------------------------------------------------------- select.cont
\* shared/sql.py: 2 ** 63 - 1 there; the largest integer TLC holds here.
BIGGEST_INT == 2147483647

\* The queries select is called with; opts are the MatchOptions.
SelectInputs ==
  { [filename |-> "A", line_num |-> 1, word |-> "x", sym |-> "x",
     limitless |-> l, opts |-> [max_results |-> 1]] : l \in BOOLEAN }

\* The limit that never caps.
Limit_Unbounded(q) == BIGGEST_INT

\* line 117
Limit(q) == IF q.limitless THEN BIGGEST_INT ELSE q.opts.max_results

NameRank(n) == CASE n = "x" -> 1 [] n = "y" -> 2 [] n = "z" -> 3 [] OTHER -> 0

\* Whether a tag's name matches the word typed so far (the empty word
\* matches every name).
Matches(r, q) == q.word = "" \/ r.name = q.word

BagRemove(b, r) ==
  [x \in {y \in DOMAIN b : y # r \/ b[y] > 1} |->
     IF x = r THEN b[x] - 1 ELSE b[x]]

\* The rows of a bag by name, ties by the engine's choice.
RECURSIVE Ordered(_)
Ordered(b) ==
  IF DOMAIN b = {} THEN <<>>
  ELSE LET r == CHOOSE x \in DOMAIN b :
                  \A y \in DOMAIN b : NameRank(x.name) <= NameRank(y.name)
       IN <<r>> \o Ordered(BagRemove(b, r))

Truncate(s, n) == IF Len(s) <= n THEN s ELSE SubSeq(s, 1, n)

\* sql("select", "tags"): the matching rows in order, at most `limit`.
SqlSelectTags(d, q, limit) ==
  Truncate(Ordered(BagKeep(d.tags, LAMBDA r : Matches(r, q))), limit)

SelectCont(t) ==
  /\ At(t, "select", "exec")
  /\ UnitFrame
  /\ UNCHANGED abandoned
  /\ LET q == calls[running[t].call].arg
     IN IF ~conn.open
        THEN Finish(t, Raised("ProgrammingError"), Its(t), "raised")
        ELSE \/ Finish(t, Returned(SqlSelectTags(Its(t), q, Limit(q))), Its(t),
                       "completed")
             \/ Finish(t, Raised("OperationalError"), Its(t), "raised")

\* ------------------------------------------------------------- swap.cont
\* line 55
SwapClose(t) ==
  /\ At(t, "swap", "close")
  /\ conn' = [conn EXCEPT !.open = FALSE]
  /\ Goto(t, "init", Its(t))
  /\ UNCHANGED <<queue, ncalls, lock, scope, swapped, abandoned, tsvars>>

\* _init: the connection to the database of cwd
_init(cwd) == [cwd |-> cwd, open |-> TRUE]

\* The old working directory opened again.
SwapAssign_Stale(old, cwd) == _init(old.cwd)

\* line 56: what self._conn becomes when _init returns
SwapAssign(old, cwd) == _init(cwd)

\* _init raising leaves self._conn as line 55 left it.
SwapInit(t) ==
  /\ At(t, "swap", "init")
  /\ UNCHANGED <<queue, ncalls, lock, scope, abandoned, tsvars>>
  /\ LET cwd == calls[running[t].call].arg
     IN \/ /\ conn' = SwapAssign(conn, cwd)
           /\ swapped' = cwd
           /\ Finish(t, Returned("None"), Its(t), "completed")
        \/ /\ Finish(t, Raised("OperationalError"), Its(t), "raised")
           /\ UNCHANGED <<conn, swapped>>

\* ------------------------------------------------- the public coroutines
\* A call as it starts.  Beside the coroutine's own state it notes what the
\* properties below ask about: sup, that a later select superseded it; nth,
\* its place among the submissions; exp, the working directory of the last
\* swap that went through, if no swap is under way ("any" if one is, "none"
\* if there was none).
NewCall(op, arg) ==
  [op |-> op, arg |-> arg, pc |-> "await", fut |-> Pending, ran |-> FALSE,
   ret |-> NotReturned, sup |-> FALSE,
   nth |-> Cardinality({c \in CallIds : calls[c].op # "none" /\ calls[c].pc # "lock"}),
   exp |-> IF \E c \in CallIds : calls[c].op = "swap" /\ calls[c].fut.st = "pending"
           THEN "any" ELSE swapped]

Next_id == ncalls + 1

CallFrame == UNCHANGED <<conn, db, hist, abandoned, swapped, tsvars>>

\* paths running its closure itself instead of submitting it.
PathsRun_Inline(c) == RunInline(c, "exec")

\* line 69: paths hands its closure to the executor
PathsRun(c) == ExSubmit(c)

CallPaths ==
  /\ ncalls < MaxCalls
  /\ ncalls' = Next_id
  /\ calls' = [calls EXCEPT ![Next_id] = NewCall("paths", <<>>)]
  /\ PathsRun(Next_id)
  /\ CallFrame
  /\ UNCHANGED <<lock, scope>>

\* reconciliate running its closure itself instead of submitting it.
ReconciliateRun_Inline(c) == RunInline(c, "delete")

\* line 99: reconciliate hands its closure to the executor
ReconciliateRun(c) == ExSubmit(c)

CallReconciliate ==
  /\ ncalls < MaxCalls
  /\ \E a \in ReconInputs :
       calls' = [calls EXCEPT ![Next_id] = NewCall("reconciliate", a)]
  /\ ncalls' = Next_id
  /\ ReconciliateRun(Next_id)
  /\ CallFrame
  /\ UNCHANGED <<lock, scope>>

\* The scope cancelling whatever is in flight, mutations included.
Interruption_CancelAll(cs, sc, c) ==
  [calls |-> [k \in CallIds |->
                IF k # c /\ cs[k].op # "none" /\ cs[k].fut.st = "pending"
                THEN [cs[k] EXCEPT !.fut = [st |-> "cancelled"]] ELSE cs[k]],
   scope |-> c]

\* The interruption scope: entering it cancels the select that is inside.
Interruption(cs, sc, c) ==
  [calls |-> IF sc = 0 THEN cs ELSE [cs EXCEPT ![sc].fut = [st |-> "cancelled"]],
   scope |-> c]

InterruptionExit(sc, c) == IF sc = c THEN 0 ELSE sc

\* select submitting without entering the scope.
SelectEnter_NoScope(cs, sc, c) == [calls |-> cs, scope |-> sc]

\* line 129: select enters the scope before it submits
SelectEnter(cs, sc, c) == Interruption(cs, sc, c)

\* Every select that has not returned is superseded by the one called now.
Supersede(cs) ==
  [c \in CallIds |->
     IF cs[c].op = "select" /\ cs[c].pc = "await"
     THEN [cs[c] EXCEPT !.sup = TRUE] ELSE cs[c]]

CallSelect ==
  /\ ncalls < MaxCalls
  /\ \E q \in SelectInputs :
       LET in == SelectEnter(
                   [Supersede(calls) EXCEPT ![Next_id] = NewCall("select", q)],
                   scope, Next_id)
       IN calls' = in.calls /\ scope' = in.scope
  /\ ncalls' = Next_id
  /\ ExSubmit(Next_id)
  /\ CallFrame
  /\ UNCHANGED lock

\* line 58-59: swap takes the lock, then submits
CallSwap ==
  /\ ncalls < MaxCalls
  /\ ncalls' = Next_id
  /\ CallFrame
  /\ UNCHANGED scope
  /\ \E cwd \in Cwds :
       IF lock = 0
       THEN /\ lock' = Next_id
            /\ calls' = [calls EXCEPT ![Next_id] = NewCall("swap", cwd)]
            /\ ExSubmit(Next_id)
       ELSE /\ calls' = [calls EXCEPT ![Next_id] =
                           [NewCall("swap", cwd) EXCEPT !.pc = "lock"]]
            /\ UNCHANGED <<lock, queue, running>>

SwapAcquire(c) ==
  /\ calls[c].op = "swap"
  /\ calls[c].pc = "lock"
  /\ lock = 0
  /\ lock' = c
  /\ calls' = [calls EXCEPT ![c] = [NewCall("swap", calls[c].arg) EXCEPT !.exp = "any"]]
  /\ ExSubmit(c)
  /\ CallFrame
  /\ UNCHANGED <<ncalls, scope>>

\* The coroutine resumes with its future done and returns.
Return(c) ==
  /\ calls[c].op # "none"
  /\ Holds(calls[c].op)
  /\ calls[c].pc = "await"
  /\ calls[c].fut.st # "pending"
  /\ calls' = [calls EXCEPT ![c].pc = "done",
                            ![c].ret = Result(calls[c].op, calls[c].fut)]
  /\ lock' = IF lock = c THEN 0 ELSE lock
  /\ scope' = IF calls[c].op = "select" THEN InterruptionExit(scope, c) ELSE scope
  /\ UNCHANGED <<conn, db, queue, running, ncalls, hist, abandoned, swapped, tsvars>>

\* ------------------------------------------------------------------- Next
Step(t) ==
  \/ PathsCont(t)
  \/ SelectCont(t)
  \/ ReconDelete(t)
  \/ ReconInsertFiles(t)
  \/ ReconInsertTags(t)
  \/ ReconOptimize(t)
  \/ SwapClose(t)
  \/ SwapInit(t)

Worker == WorkerTake \/ \E t \in Threads : Step(t)

Next ==
  \/ CallPaths
  \/ CallReconciliate
  \/ CallSelect
  \/ CallSwap
  \/ \E c \in CallIds : SwapAcquire(c)
  \/ \E c \in CallIds : Return(c)
  \/ Worker

Spec == Init /\ [][Next]_vars

\* The worker is a thread of its own: it is never starved of steps.
FairSpec == Spec /\ WF_vars(Worker)

\* ---------------------------------------------- tree-sitter Worker: steps
TSFrame ==
  UNCHANGED <<conn, db, queue, running, calls, ncalls, lock, scope, hist,
              abandoned, swapped>>

\* Future.cancel(): a pending future becomes cancelled, a done one stays.
Cancel(f) == IF f.st = "pending" THEN [st |-> "cancelled"] ELSE f

\* Future.set_result(v): InvalidStateError unless the future is pending.
SetResult(f, v) ==
  IF f.st = "pending"
  THEN [fut |-> Returned(v), err |-> "none"]
  ELSE [fut |-> f, err |-> "InvalidStateError"]

\* line 48: with suppress(InvalidStateError)
Suppress(e) == IF e = "InvalidStateError" THEN "none" ELSE e

\* lines 30-32: _req cancels the current future, then lets the loop run
ReqCancel(r) ==
  /\ reqs[r].pc = "none"
  /\ \A k \in 1..(r - 1) : reqs[k].pc # "none"
  /\ futs' = [futs EXCEPT ![_cur] = Cancel(@)]
  /\ reqs' = [reqs EXCEPT ![r] = [pc |-> "sleep", token |-> r, ret |-> NotReturned]]
  /\ UNCHANGED <<_cur, sent, note>>
  /\ TSFrame

\* line 33: self._cur = token, fut = uuid4(), Future()
ReqInstall(r) ==
  /\ reqs[r].pc = "sleep"
  /\ _cur' = reqs[r].token
  /\ futs' = [futs EXCEPT ![reqs[r].token] = Pending]
  /\ reqs' = [reqs EXCEPT ![r].pc = "call"]
  /\ UNCHANGED <<sent, note>>
  /\ TSFrame

\* lines 35-39: COQts_req(token, pos) reaches the external process
ReqSend(r) ==
  /\ reqs[r].pc = "call"
  /\ sent' = sent \cup {reqs[r].token}
  /\ reqs' = [reqs EXCEPT ![r].pc = "await"]
  /\ UNCHANGED <<_cur, futs, note>>
  /\ TSFrame

\* lines 41-42: the future is done; _req returns its result, or the
\* cancellation is raised in it
ReqAwait(r) ==
  /\ reqs[r].pc = "await"
  /\ futs[reqs[r].token].st # "pending"
  /\ reqs' = [reqs EXCEPT ![r].pc = "done",
                          ![r].ret = IF futs[reqs[r].token].st = "cancelled"
                                     THEN [kind |-> "cancelled"]
                                     ELSE Value(futs[reqs[r].token].val)]
  /\ UNCHANGED <<_cur, futs, sent, note>>
  /\ TSFrame

\* notify taking every token for the current one.
TokenMatches_Any(token, c_token) == TRUE

\* line 46
TokenMatches(token, c_token) == token = c_token

\* lines 44-49: the external process answers a request it was sent; msg is
\* the reply followed by whatever else
Notify(token, msg) ==
  LET c_token == _cur
      fut == futs[_cur]
      reply == Head(msg)
      out == IF TokenMatches(token, c_token)
             THEN SetResult(fut, reply)
             ELSE [fut |-> fut, err |-> "none"]
  IN /\ token \in sent
     /\ futs' = [futs EXCEPT ![c_token] = out.fut]
     /\ note' = [token |-> token, c_token |-> c_token, reply |-> reply,
                 was |-> futs, now |-> futs', err |-> Suppress(out.err)]
     /\ UNCHANGED <<_cur, reqs, sent>>
     /\ TSFrame

TSNext ==
  \/ \E r \in ReqIds : ReqCancel(r)
  \/ \E r \in ReqIds : ReqInstall(r)
  \/ \E r \in ReqIds : ReqSend(r)
  \/ \E r \in ReqIds : ReqAwait(r)
  \/ \E t \in Tokens, x \in Replies : Notify(t, <<x>>)

TSSpec == Init /\ [][TSNext]_vars

\* ------------------------------------------------------------- properties
Reads == {"paths", "select"}

\* The closure that ended last was a read that ran its statement.
ReadEnded == hist.call # 0 /\ hist.op \in Reads /\ hist.how = "completed"

\* The closure that ended last was a reconciliation.
ReconEnded == hist.call # 0 /\ hist.op = "reconciliate"

\* The tags row a raw tag is stored as, and the tags a files row stands for:
\* those of the entry with its filename and mtime.
Stored(tags) == BagOfSeq([j \in 1..Len(tags) |-> DictMerge(_NIL_TAG, tags[j])])

Entries == UNION {SeqRange(a.new) : a \in ReconInputs}

Intended(f, m) ==
  (CHOOSE e \in Entries : e.filename = f /\ e.mtime = m).tags

Whole(d, f) ==
  /\ f \in DOMAIN d.files
  /\ TagsOf(d, f) = Stored(Intended(f, d.files[f].mtime))

\* C1: at any instant at most one closure is executing against the handle,
\* however many calls of paths, select, reconciliate and swap are under way.
C1_MutualExclusion == Cardinality(Executing) <= 1

\* One closure executes while two more, of other calls, wait in the queue.
C1_Witness == Busy("worker") /\ Len(queue) >= 2

\* C2 as stated: no read ever sees a file entry without all of its tags, or
\* a reconciliation between two of its statements.
C2_NeverPartial ==
  ReadEnded =>
    /\ hist.midway = {}
    /\ \A f \in DOMAIN hist.seen.files : Whole(hist.seen, f)

\* C2 amended: no read runs between two statements of a reconciliation, and
\* a file entry it sees without all of its tags is one that a reconciliation
\* abandoned on an OperationalError left behind.
C2_NoInterleavedRead ==
  ReadEnded =>
    /\ hist.midway = {}
    /\ \A f \in (DOMAIN hist.seen.files) \ hist.abandoned : Whole(hist.seen, f)

\* A reconciliation is between two statements while a read waits its turn.
C2_Witness ==
  /\ Midway("worker")
  /\ \E i \in 1..Len(queue) : calls[queue[i]].op \in Reads

\* C3: a reconciliation with no dead files and one entry {F: T2}, run to its
\* end on a database that has F with other tags, leaves F with exactly T2.
C3_Replace ==
  ( /\ ReconEnded
    /\ hist.arg.dead = {}
    /\ Len(hist.arg.new) = 1
    /\ hist.arg.new[1].filename \in DOMAIN hist.before.files
    /\ hist.how # "abandoned"
    /\ hist.out # Raised("ProgrammingError") )
  => LET e == hist.arg.new[1]
     IN /\ hist.how = "completed"
        /\ TagsOf(hist.after, e.filename) = Stored(e.tags)
        /\ hist.after.files[e.filename] = [filetype |-> e.lang, mtime |-> e.mtime]

\* F had the one tag of T1 and has the two tags of T2.
C3_Witness ==
  /\ ReconEnded
  /\ hist.how = "completed"
  /\ hist.arg.dead = {}
  /\ Len(hist.arg.new) = 1
  /\ TagsOf(hist.before, "A") = Stored(T1("A"))
  /\ TagsOf(hist.after, "A") = Stored(T2("A"))

\* C4: a reconciliation, ended in whatever way, changes nothing of a file
\* that is neither dead nor a key of new; run to its end it leaves no entry
\* and no tag of a dead file that is no key of new.
C4_Frame ==
  ReconEnded =>
    /\ \A f \in Files \ Touched(hist.arg) :
         /\ (f \in DOMAIN hist.before.files) = (f \in DOMAIN hist.after.files)
         /\ f \in DOMAIN hist.before.files =>
              hist.after.files[f] = hist.before.files[f]
         /\ TagsOf(hist.after, f) = TagsOf(hist.before, f)
    /\ hist.how = "completed" =>
         \A f \in hist.arg.dead \ Keys(hist.arg.new) :
           /\ f \notin DOMAIN hist.after.files
           /\ TagsOf(hist.after, f) = NoRows

\* With A and B indexed, reconciliate({A}, {}) has left B alone, tags and all.
C4_Witness ==
  /\ ReconEnded
  /\ hist.how = "completed"
  /\ hist.arg = [dead |-> {"A"}, new |-> <<>>]
  /\ DOMAIN hist.before.files = {"A", "B"}
  /\ DOMAIN hist.after.files = {"B"}
  /\ TagsOf(hist.after, "B") = Stored(T1("B"))
  /\ hist.after.tags = TagsOf(hist.after, "B")

\* C5: reconciliate({}, S) run to its end right after reconciliate({}, S)
\* was, on the same database, leaves the database as it found it.
C5_Idempotent ==
  ( /\ ReconEnded
    /\ hist.again
    /\ hist.arg.dead = {}
    /\ hist.how # "abandoned"
    /\ hist.out # Raised("ProgrammingError") )
  => /\ hist.how = "completed"
     /\ hist.after = hist.before

\* The second of two equal reconciliations in a row has run to its end.
C5_Witness ==
  /\ ReconEnded
  /\ hist.again
  /\ hist.arg.dead = {}
  /\ hist.how = "completed"
  /\ hist.after.tags # NoRows

\* C6: a paths, select or reconciliate called when the last swap has gone
\* through and no other is under way works on the database of that swap's
\* working directory, and on no other.
C6_SwapIsolation ==
  ( /\ hist.call # 0
    /\ hist.op # "swap"
    /\ hist.how # "raised"
    /\ calls[hist.call].exp \notin {"any", "none"} )
  => hist.name = DbName(calls[hist.call].exp)

\* After a swap to q, a read has found q's database empty while p's, the
\* one left behind, holds files.
C6_Witness ==
  /\ ReadEnded
  /\ calls[hist.call].exp = "q"
  /\ hist.name = DbName("q")
  /\ DOMAIN hist.seen.files = {}
  /\ DOMAIN db[DbName("p")].files # {}

\* C7 as stated: whatever was submitted before a swap has run to its end
\* when the swap has closed the handle, and no closure other than the swap's
\* ever executes while self._conn is a closed handle.
C7_SwapOrdering ==
  /\ \A t \in Threads :
       At(t, "swap", "init") =>
         \A c \in CallIds :
           ( /\ calls[c].op # "none"
             /\ calls[c].pc # "lock"
             /\ calls[c].nth < calls[running[t].call].nth ) => calls[c].ran
  /\ \A t \in Threads :
       (Busy(t) /\ calls[running[t].call].op # "swap") => conn.open

\* C8 as stated: no call ever raises OperationalError; a read whose closure
\* raised it returns the empty result.
C8_NeverPropagated ==
  \A c \in CallIds :
    calls[c].op # "none" =>
      /\ calls[c].ret.kind = "raised" => calls[c].ret.err # "OperationalError"
      /\ ( /\ calls[c].op \in Reads
           /\ calls[c].pc = "done"
           /\ calls[c].fut = Raised("OperationalError") )
         => calls[c].ret = Value(<<>>)

\* C10: a select superseded by a later one is cancelled while it waits, and
\* is never handed a result, whether or not its closure produced one.
C10_Discarded ==
  \A c \in CallIds :
    (calls[c].op = "select" /\ calls[c].sup) =>
      /\ calls[c].pc = "await" => calls[c].fut.st = "cancelled"
      /\ calls[c].ret.kind \in {"none", "cancelled"}

\* A superseded select whose closure ran and produced rows was cancelled.
C10_Witness ==
  \E c \in CallIds :
    /\ calls[c].op = "select"
    /\ calls[c].sup
    /\ calls[c].ran
    /\ calls[c].ret.kind = "cancelled"
    /\ hist.call = c
    /\ hist.how = "completed"
    /\ hist.out.val # <<>>

\* A future gets an exception only in the step in which the closure of its
\* own call ends by raising.
C9_OwnError ==
  \A c \in CallIds :
    ( /\ calls'[c].op # "none"
      /\ calls'[c].fut.st = "exception"
      /\ calls[c].op = "none" \/ calls[c].fut.st # "exception" ) =>
      /\ \E t \in Threads : running[t].call = c /\ ~Busy(t)'
      /\ hist'.call = c
      /\ hist'.how = "raised"

\* Nothing is queued and the worker is idle.
Drained == queue = <<>> /\ ~Busy("worker")

\* With the queue drained, every closure submitted has run to its end.
C9_NoneLost ==
  Drained =>
    \A c \in CallIds :
      (calls[c].op # "none" /\ calls[c].pc # "lock") => calls[c].ran

\* C9: an exception raised by a closure reaches the future of its own call
\* and no other; and whatever has raised, the worker comes again and again
\* to the end of its queue, having by then run every closure submitted.
C9_QueueSurvives ==
  /\ [][C9_OwnError]_vars
  /\ []<>Drained
  /\ []C9_NoneLost

\* A closure has run to its end after the closure of an earlier call raised.
C9_Witness ==
  \E c, e \in CallIds :
    /\ calls[e].op # "none" /\ calls[c].op # "none"
    /\ calls[e].ran /\ calls[e].fut.st = "exception"
    /\ calls[e].nth < calls[c].nth
    /\ hist.call = c
    /\ hist.how = "completed"
    /\ calls[c].fut.st = "result"

\* A select whose future was cancelled.
Cancelled(c) == calls[c].op = "select" /\ calls[c].fut.st = "cancelled"

InQueue(c) == \E i \in 1..Len(queue) : queue[i] = c

\* A cancelled select whose closure has not run yet still waits its turn, or
\* is being run.
C11_NotDropped ==
  \A c \in CallIds :
    (calls[c].op # "none" /\ Cancelled(c) /\ ~calls[c].ran) =>
      InQueue(c) \/ running["worker"].call = c

\* Once a select was cancelled, closures still execute one at a time, and a
\* drained queue has run every closure submitted, the cancelled one included.
C11_Healthy ==
  (\E c \in CallIds : calls[c].op # "none" /\ Cancelled(c)) =>
    /\ Cardinality(Executing) <= 1
    /\ Drained =>
         \A c \in CallIds :
           (calls[c].op # "none" /\ calls[c].pc # "lock") => calls[c].ran

\* C11: the closure of a cancelled select stays in the queue until the worker
\* runs it, and after any cancellations the worker goes on draining its
\* queue, one closure at a time, every later submission included.
C11_CancelledStillRuns ==
  /\ []C11_NotDropped
  /\ []C11_Healthy
  /\ []<>Drained

\* The closure of a cancelled select has run, and after it the closure of a
\* call made later has run to its end.
C11_Witness ==
  \E c, d \in CallIds :
    /\ calls[c].op # "none" /\ calls[d].op # "none"
    /\ Cancelled(c)
    /\ calls[c].ran
    /\ calls[c].nth < calls[d].nth
    /\ hist.call = d
    /\ hist.how = "completed"

\* C12 as stated: every read, paths as well as select, that waits for its
\* closure is the one inside the interruption scope, where a superseding
\* request cancels it.
C12_ReadsInScope ==
  \A c \in CallIds :
    ( /\ calls[c].op \in Reads
      /\ calls[c].pc = "await"
      /\ calls[c].fut.st = "pending" ) => scope = c

Mutations == {"reconciliate", "swap"}

\* C13: the future of a submitted reconciliate or swap is never cancelled,
\* the call is never handed a cancellation, and until its closure has run
\* it waits in the queue or is being run by the worker, whatever selects
\* arrive and whatever they cancel.
C13_NotCancelable ==
  \A c \in CallIds :
    (calls[c].op \in Mutations /\ calls[c].pc # "lock") =>
      /\ calls[c].fut.st # "cancelled"
      /\ calls[c].ret.kind # "cancelled"
      /\ ~calls[c].ran => InQueue(c) \/ running["worker"].call = c
      /\ calls[c].ran => ~InQueue(c) /\ running["worker"].call # c

\* A reconciliation has run to its end although, while it waited or ran, a
\* select called after it was cancelled by a later one.
C13_Witness ==
  \E c, d \in CallIds :
    /\ calls[c].op = "reconciliate"
    /\ hist.call = c
    /\ hist.how = "completed"
    /\ hist.after # hist.before
    /\ calls[d].op # "none"
    /\ Cancelled(d)
    /\ ~calls[d].ran
    /\ calls[c].nth < calls[d].nth

\* How many stored tags of d match the query q.
MatchCount(d, q) == Len(Ordered(BagKeep(d.tags, LAMBDA r : Matches(r, q))))

\* C14: a select with limitless false and max_results = N yields at most N
\* tags, from its closure and to its caller, however many stored tags match;
\* with limitless true the limit handed to the query is BIGGEST_INT, under
\* which every matching tag is returned.
C14_ResultCap ==
  /\ ( /\ hist.call # 0
       /\ hist.op = "select"
       /\ hist.how = "completed" ) =>
       LET q == hist.arg
           n == Len(hist.out.val)
       IN IF q.limitless
          THEN /\ Limit(q) = BIGGEST_INT
               /\ n = MatchCount(hist.seen, q)
          ELSE /\ n <= q.opts.max_results
               /\ n <= MatchCount(hist.seen, q)
  /\ \A c \in CallIds :
       ( /\ calls[c].op = "select"
         /\ calls[c].ret.kind = "value"
         /\ ~calls[c].arg.limitless ) =>
         Len(calls[c].ret.val) <= calls[c].arg.opts.max_results

\* With two stored tags matching, a select capped at one has returned one
\* tag and a limitless select has returned both.
C14_Witness ==
  \E c, d \in CallIds :
    /\ calls[c].op = "select" /\ calls[d].op = "select"
    /\ ~calls[c].arg.limitless
    /\ calls[c].ret.kind = "value"
    /\ Len(calls[c].ret.val) = 1
    /\ calls[d].arg.limitless
    /\ calls[d].ret.kind = "value"
    /\ Len(calls[d].ret.val) = 2
    /\ MatchCount(Cur, calls[c].arg) = 2

\* What reconciliate(a.dead, a.new) is meant to leave of database d: the
\* files and tags of d that a does not touch, and the entries of a.new.
Expected(d, a) ==
  LET keep == (DOMAIN d.files) \ Touched(a)
      e(f) == CHOOSE x \in SeqRange(a.new) : x.filename = f
  IN [files |-> [f \in keep \cup Keys(a.new) |->
                   IF f \in Keys(a.new)
                   THEN [filetype |-> e(f).lang, mtime |-> e(f).mtime]
                   ELSE d.files[f]],
      tags |-> [r \in {x \in DOMAIN d.tags : x.path \notin Touched(a)}
                     \cup UNION {DOMAIN Stored(x.tags) : x \in SeqRange(a.new)} |->
                  IF r.path \in Touched(a)
                  THEN Stored(e(r.path).tags)[r]
                  ELSE d.tags[r]]]

\* C15: a reconciliate that comes right after an abandoned one with the same
\* dead and new, on the same database, and that meets no storage error, runs
\* to its end and leaves what the first would have left had it run to its
\* end on the database it started from.
C15_SelfHealing ==
  ( /\ ReconEnded
    /\ hist.first # <<>>
    /\ hist.how # "abandoned"
    /\ hist.out # Raised("ProgrammingError") )
  => /\ hist.how = "completed"
     /\ hist.after = Expected(hist.first[1], hist.arg)

\* The abandoned attempt had changed the database, and the retry has run to
\* its end.
C15_Witness ==
  /\ ReconEnded
  /\ hist.first # <<>>
  /\ hist.how = "completed"
  /\ hist.before # hist.first[1]
  /\ hist.before # hist.after
  /\ hist.after.tags # NoRows

\* C16: in every database, at every moment, each stored tag is a tag of a
\* file that has its (one) files row: no tag is stored for a file without
\* an entry, and none is left when the entry of its file is deleted.
C16_Referential ==
  \A n \in DOMAIN db :
    \A r \in DOMAIN db[n].tags : r.path \in DOMAIN db[n].files

\* A reconciliation has deleted the entry of a file that had tags, while the
\* tags of another file stay stored.
C16_Witness ==
  /\ ReconEnded
  /\ hist.how = "completed"
  /\ "A" \in hist.arg.dead
  /\ TagsOf(hist.before, "A") # NoRows
  /\ "A" \notin DOMAIN hist.after.files
  /\ TagsOf(hist.after, "A") = NoRows
  /\ hist.after.tags # NoRows

\* C17: a call of notify with a token other than the current one changes no
\* future; with the current token it resolves the current future with the
\* reply if that future is pending and changes nothing if it is done or
\* cancelled; and no call of notify raises.
C17_TokenCorrelation ==
  note # NoNote =>
    /\ note.err = "none"
    /\ IF note.token = note.c_token /\ note.was[note.c_token].st = "pending"
       THEN note.now = [note.was EXCEPT ![note.c_token] = Returned(note.reply)]
       ELSE note.now = note.was

\* A second reply, r2, has come for the current token after the first, r1,
\* and the request has returned r1.
C17_Witness ==
  /\ note # NoNote
  /\ note.token = note.c_token
  /\ note.was[note.c_token] = Returned("r1")
  /\ note.reply = "r2"
  /\ \E r \in ReqIds :
       /\ reqs[r].pc = "done"
       /\ reqs[r].token = _cur
       /\ reqs[r].ret = Value("r1")

\* C18 as stated: every future other than the current one has been
\* cancelled or resolved, so that at most one future is pending, the
\* current one.
C18_CancelOnSupersede ==
  \A t \in Tokens : futs[t].st = "pending" => t = _cur

\* C19 as stated: no call of _req awaits a future that can be neither
\* resolved nor cancelled: a pending future that is awaited is the current
\* one, the only one notify resolves and the next _req cancels.
C19_NoneStranded ==
  \A r \in ReqIds :
    (reqs[r].pc = "await" /\ futs[reqs[r].token].st = "pending") =>
      reqs[r].token = _cur

\* C20 as stated: between closures self._conn is an open handle, and once a
\* swap has gone through it is the handle of the working directory of the
\* last swap that did.
C20_HandleValid ==
  Executing = {} =>
    /\ conn.open
    /\ swapped # "none" => conn.cwd = swapped

====
